---- MODULE Spec2Model ----
(***************************************************************************)
(* Model of the test execution and reporting engine of test_runner.py:     *)
(* the TestResult recorder (startTest / addSuccess / addError / addFailure *)
(* / addSkip plus the callbacks it inherits unchanged), the run of a suite *)
(* through EnhancedTestRunner.run, the console and HTML reporters and the  *)
(* exit code of the command line entry point.                              *)
(*                                                                         *)
(* A test object is a pair: <<"TestCase", i>> for the i-th unit of the     *)
(* suite, <<"_ErrorHolder", k>> for the placeholder the framework passes   *)
(* to addError / addSkip for a class-level fixture (k = 1 setUpClass,      *)
(* k = 2 tearDownClass).  Texts are sequences of characters.  An optional  *)
(* value (Python None or a value) is a sequence of length at most one.     *)
(***************************************************************************)
EXTENDS Integers, Sequences, FiniteSets, TLC

VARIABLES
    suite,          \* the input units, in suite order (never written after Init)
    fixture,        \* behaviour of the class-level fixture of the units' class
    failfast,       \* EnhancedTestRunner(failfast=...)
    output_format,  \* EnhancedTestRunner(output_format=...)
    result,         \* the TestResult object
    outcome,        \* the framework's per-unit outcome object
    classSetupFailed, \* the class's _classSetupFailed flag
    pc,             \* position of the run
    idx,            \* index in the suite of the unit the loop has reached
    now,            \* time.time()
    run_start,      \* start_time of EnhancedTestRunner.run
    invoked,        \* units whose test method has been invoked
    stopped,        \* units for which stopTest has been called
    console,        \* what _print_summary printed (None before)
    report,         \* what _generate_html_report produced (None before)
    exc,            \* the exception propagating out of the run ("none" if none)
    exitCode,       \* the process exit status (None while running)
    workers,        \* the threads calling the recorder's callbacks: position,
                    \* unit held and local execution_time of each
    client,         \* the WebAPIClient object (None before construction)
    radar,          \* a call of analyze_radar_data or find_closest_radars
    manager,        \* the TestDataManager objects and their data file
    test_suite      \* a run of TestSuite and the summary file it writes

vars == << suite, fixture, failfast, output_format, result, outcome,
           classSetupFailed, pc, idx, now, run_start, invoked, stopped,
           console, report, exc, exitCode, workers, client, radar, manager,
           test_suite >>

\* ------------------------------------------------------------------ bounds

MaxUnits == 2

Durations == {0, 1}

\* ------------------------------------------------------------------ values

None == << >>

Some(v) == << v >>

Case(i) == << "TestCase", i >>

ErrorHolder(k) == << "_ErrorHolder", k >>

Unit(skip, xfail, setUp, body, tearDown, text) ==
    [skip |-> skip, xfail |-> xfail, setUp |-> setUp, body |-> body,
     tearDown |-> tearDown, text |-> text]

\* The unit behaviours the suites are drawn from: a passing unit, a failing
\* one, an erroring one, one whose body fails and whose tearDown then raises,
\* one decorated with skip (its body would raise if it were invoked), one
\* whose body raises SkipTest, the two expectedFailure cases, one whose
\* failure is raised inside a subTest block, and one whose setUp raises.
\* The text of a unit is the message of what it raises or the reason of its
\* skip: some hold markup characters, and one skip reason is the empty string.
UnitKinds ==
    { Unit(FALSE, FALSE, "ok", "ok", "ok", << "m" >>),
      Unit(FALSE, FALSE, "ok", "fail", "ok", << "<", "b", ">" >>),
      Unit(FALSE, FALSE, "ok", "error", "ok", << "&", "\"" >>),
      Unit(FALSE, FALSE, "ok", "fail", "error", << "'" >>),
      Unit(TRUE, FALSE, "ok", "error", "ok", << "<", "w" >>),
      Unit(FALSE, FALSE, "ok", "skip", "ok", << >>),
      Unit(FALSE, TRUE, "ok", "fail", "ok", << "m" >>),
      Unit(FALSE, TRUE, "ok", "ok", "ok", << "m" >>),
      Unit(FALSE, FALSE, "ok", "subfail", "ok", << "m" >>),
      Unit(FALSE, FALSE, "error", "ok", "ok", << "m" >>) }

Fixtures == {"ok", "setUpClassError", "setUpClassSkip", "tearDownClassError"}

Suites == UNION { [1..n -> UnitKinds] : n \in 0..MaxUnits }

\* sys.exc_info() of what a part of a unit raised
ExcInfo(kind, text) ==
    [type |-> IF kind \in {"fail", "subfail"} THEN "AssertionError" ELSE "RuntimeError",
     msg |-> text]

FixtureText == << "c" >>

\* issubclass(exc_info[0], test.failureException)
IsFailure(err) == err.type = "AssertionError"

\* TestResult._exc_info_to_string(err, test): the formatted trace
ExcInfoToString(err, test) == << "Traceback", err.type >> \o err.msg

Put(f, k, v) == [x \in DOMAIN f \cup {k} |-> IF x = k THEN v ELSE f[x]]

\* ------------------------------------------------------------ TestResult

\* TestResult.__init__: the recorder after construction
NewResult ==
    [testsRun |-> 0, errors |-> << >>, failures |-> << >>, skipped |-> << >>,
     expectedFailures |-> << >>, unexpectedSuccesses |-> << >>,
     shouldStop |-> FALSE, failfast |-> FALSE,
     test_results |-> << >>, start_times |-> << >>, execution_times |-> << >>]

Raise(R, e) == [res |-> R, exc |-> e]

Return(R) == [res |-> R, exc |-> "none"]

\* the inherited failfast decorator: stop() first when failfast is set
FailfastStop(R) == IF R.failfast THEN [R EXCEPT !.shouldStop = TRUE] ELSE R

\* super().addError(test, err)
superAddError(R, test, err) ==
    [FailfastStop(R) EXCEPT !.errors = Append(@, << test, ExcInfoToString(err, test) >>)]

\* super().addFailure(test, err)
superAddFailure(R, test, err) ==
    [FailfastStop(R) EXCEPT !.failures = Append(@, << test, ExcInfoToString(err, test) >>)]

\* super().addSkip(test, reason)
superAddSkip(R, test, reason) ==
    [R EXCEPT !.skipped = Append(@, << test, reason >>)]

Record(test, status, execution_time, details) ==
    [test |-> test, result |-> status, execution_time |-> execution_time,
     details |-> details]

\* TestResult.startTest(test) at time t
startTest(R, test, t) ==
    Return([R EXCEPT !.testsRun = @ + 1,
                     !.start_times = Put(@, test, t)])

\* TestResult.addSuccess(test) at time t
addSuccess(R, test, t) ==
    IF test \notin DOMAIN R.start_times
    THEN Raise(R, "KeyError")
    ELSE LET execution_time == t - R.start_times[test]
         IN  Return([R EXCEPT
                 !.execution_times = Put(@, test, execution_time),
                 !.test_results = Append(@, Record(test, "SUCCESS", execution_time, None))])

\* a slip in addError: the record replaces the one the test already has
\* (results kept by test instead of appended)
addErrorOverwriting(R, test, err, t) ==
    LET R1 == superAddError(R, test, err)
    IN  IF test \notin DOMAIN R1.start_times
        THEN Raise(R1, "KeyError")
        ELSE LET execution_time == t - R1.start_times[test]
                 kept == SelectSeq(R1.test_results, LAMBDA r : r.test # test)
             IN  Return([R1 EXCEPT
                     !.execution_times = Put(@, test, execution_time),
                     !.test_results = Append(kept, Record(test, "ERROR", execution_time,
                                                          Some(ExcInfoToString(err, test))))])

\* TestResult.addError(test, err) at time t
addError(R, test, err, t) ==
    LET R1 == superAddError(R, test, err)
    IN  IF test \notin DOMAIN R1.start_times
        THEN Raise(R1, "KeyError")
        ELSE LET execution_time == t - R1.start_times[test]
             IN  Return([R1 EXCEPT
                     !.execution_times = Put(@, test, execution_time),
                     !.test_results = Append(@, Record(test, "ERROR", execution_time,
                                                       Some(ExcInfoToString(err, test))))])

\* TestResult.addFailure(test, err) at time t
addFailure(R, test, err, t) ==
    LET R1 == superAddFailure(R, test, err)
    IN  IF test \notin DOMAIN R1.start_times
        THEN Raise(R1, "KeyError")
        ELSE LET execution_time == t - R1.start_times[test]
             IN  Return([R1 EXCEPT
                     !.execution_times = Put(@, test, execution_time),
                     !.test_results = Append(@, Record(test, "FAILURE", execution_time,
                                                       Some(ExcInfoToString(err, test))))])

\* a slip in addSkip: the reason left out of the record
addSkipNoReason(R, test, reason) ==
    Return([superAddSkip(R, test, reason) EXCEPT
        !.test_results = Append(@, Record(test, "SKIP", 0, None))])

\* TestResult.addSkip(test, reason)
addSkip(R, test, reason) ==
    Return([superAddSkip(R, test, reason) EXCEPT
        !.test_results = Append(@, Record(test, "SKIP", 0, Some(reason)))])

\* addSubTest(test, subtest, err) with err not None, inherited unchanged:
\* the subtest goes to failures or errors and no record is made
addSubTest(R, test, err) ==
    LET R1 == FailfastStop(R)
        entry == << << "_SubTest", test[2] >>, ExcInfoToString(err, test) >>
    IN  Return(IF IsFailure(err)
               THEN [R1 EXCEPT !.failures = Append(@, entry)]
               ELSE [R1 EXCEPT !.errors = Append(@, entry)])

\* addExpectedFailure(test, err), inherited unchanged
addExpectedFailure(R, test, err) ==
    Return([R EXCEPT !.expectedFailures = Append(@, << test, ExcInfoToString(err, test) >>)])

\* addUnexpectedSuccess(test), inherited unchanged
addUnexpectedSuccess(R, test) ==
    Return([FailfastStop(R) EXCEPT !.unexpectedSuccesses = Append(@, test)])

\* the framework's _addError: addFailure for the assertion-style error,
\* addError for any other
reportError(R, test, err, t) ==
    IF IsFailure(err) THEN addFailure(R, test, err, t) ELSE addError(R, test, err, t)

\* result.wasSuccessful()
wasSuccessful(R) ==
    /\ Len(R.failures) = 0
    /\ Len(R.errors) = 0
    /\ Len(R.unexpectedSuccesses) = 0

\* ------------------------------------------------------------- reporters

\* a slip in the count: the skipped units not taken off
SuccessfulIgnoringSkips(R) == R.testsRun - Len(R.errors) - Len(R.failures)

\* the five counts _print_summary prints (and the HTML summary block repeats)
Successful(R) == R.testsRun - Len(R.errors) - Len(R.failures) - Len(R.skipped)

Summary(R) ==
    [total |-> R.testsRun,
     succeeded |-> Successful(R),
     errored |-> Len(R.errors),
     failed |-> Len(R.failures),
     skipped |-> Len(R.skipped)]

\* a slip in the details loop: details printed for failures and errors only
DetailLinesFailuresOnly(R) ==
    [i \in 1..Len(R.test_results) |->
        LET r == R.test_results[i]
        IN  [status |-> r.result, test |-> r.test, execution_time |-> r.execution_time,
             details |-> IF r.result \in {"FAILURE", "ERROR"} THEN r.details ELSE None]]

\* one printed line per record, the details beneath it when they are truthy
DetailLines(R) ==
    [i \in 1..Len(R.test_results) |->
        LET r == R.test_results[i]
        IN  [status |-> r.result, test |-> r.test, execution_time |-> r.execution_time,
             details |-> IF r.details # None /\ r.details[1] # << >>
                         THEN r.details ELSE None]]

\* EnhancedTestRunner._print_summary(result, execution_time)
print_summary(R, execution_time) ==
    [execution_time |-> execution_time, summary |-> Summary(R), lines |-> DetailLines(R)]

\* a slip in the row class: failures given the class of errors
LowerSharedClass(status) ==
    CASE status = "SUCCESS" -> "success"
      [] status = "FAILURE" -> "error"
      [] status = "ERROR" -> "error"
      [] status = "SKIP" -> "skip"

\* status.lower(): the class of the table row
Lower(status) ==
    CASE status = "SUCCESS" -> "success"
      [] status = "FAILURE" -> "failure"
      [] status = "ERROR" -> "error"
      [] status = "SKIP" -> "skip"

\* html.escape of one character (quote=True)
EscapeChar(c) ==
    CASE c = "&" -> << "&", "a", "m", "p", ";" >>
      [] c = "<" -> << "&", "l", "t", ";" >>
      [] c = ">" -> << "&", "g", "t", ";" >>
      [] c = "\"" -> << "&", "q", "u", "o", "t", ";" >>
      [] c = "'" -> << "&", "#", "x", "2", "7", ";" >>
      [] OTHER -> << c >>

\* a slip in the details cell: html.escape left out
EscapeNothing(text) == text

RECURSIVE Escape(_)
\* html.escape(text)
Escape(text) ==
    IF text = << >> THEN << >> ELSE EscapeChar(Head(text)) \o Escape(Tail(text))

\* str(details) of a record's details after "details or ''": the trace is a
\* sequence of tokens, printed one after the other
Flatten(details) ==
    IF details = None THEN << >> ELSE details[1]

\* the method name of unit i: every second unit is a generated test whose
\* name holds markup characters
MethodName(i) ==
    << "test_" >> \o (IF i % 2 = 0 THEN << "<", "b", ">" >> ELSE << >>) \o << ToString(i) >>

\* str(test): "method (Class.method)" for a unit, "setUpClass (Class)" for
\* the holder of a class fixture's error
Str(test) ==
    IF test[1] = "TestCase"
    THEN MethodName(test[2]) \o << " (", "T", "." >> \o MethodName(test[2]) \o << ")" >>
    ELSE << IF test[2] = 1 THEN "setUpClass" ELSE "tearDownClass", " (", "T", ")" >>

\* one table row per record
HtmlRows(R) ==
    [i \in 1..Len(R.test_results) |->
        LET r == R.test_results[i]
        IN  [class |-> Lower(r.result), test |-> Str(r.test), status |-> r.result,
             execution_time |-> r.execution_time,
             details |-> Escape(Flatten(r.details))]]

\* a slip in the HTML summary block: Successful without the skipped taken off
HtmlSummaryIgnoringSkips(R) ==
    [total |-> R.testsRun,
     succeeded |-> R.testsRun - Len(R.errors) - Len(R.failures),
     errored |-> Len(R.errors),
     failed |-> Len(R.failures),
     skipped |-> Len(R.skipped)]

\* the five counts of the HTML summary block
HtmlSummary(R) ==
    [total |-> R.testsRun,
     succeeded |-> R.testsRun - Len(R.errors) - Len(R.failures) - Len(R.skipped),
     errored |-> Len(R.errors),
     failed |-> Len(R.failures),
     skipped |-> Len(R.skipped)]

\* a variant of the reporter that only builds the document and returns it
generate_html_report_as_data(R, execution_time) ==
    [execution_time |-> execution_time, summary |-> HtmlSummary(R), rows |-> HtmlRows(R),
     written |-> FALSE, opened |-> FALSE,
     returned |-> Some([summary |-> HtmlSummary(R), rows |-> HtmlRows(R)])]

\* EnhancedTestRunner._generate_html_report(result, execution_time): the
\* document (summary block and table rows) is written to a temporary file,
\* the file is opened in the browser, and the method returns None
generate_html_report(R, execution_time) ==
    [execution_time |-> execution_time, summary |-> HtmlSummary(R), rows |-> HtmlRows(R),
     written |-> TRUE, opened |-> TRUE, returned |-> None]

\* ------------------------------------------------------------------- run

\* the threads that call the callbacks of one TestResult; run_tests has one
Workers == { "w1", "w2" }

IdleWorker == [pc |-> "idle", test |-> 0, execution_time |-> 0]

\* the objects of the repository's other programs, which a run of the test
\* runner never touches
OtherPrograms == << workers, client, radar, manager, test_suite >>

OtherProgramsAtRest ==
    /\ workers = [w \in Workers |-> IdleWorker]
    /\ client = None
    /\ radar = None
    /\ manager = None
    /\ test_suite = None

\* the state of the test runner
RunnerVars ==
    << suite, fixture, failfast, output_format, result, outcome,
       classSetupFailed, pc, idx, now, run_start, invoked, stopped, console,
       report, exc, exitCode >>

\* the test runner before any run, as the other programs leave it
RunnerAtRest ==
    /\ suite = << >>
    /\ fixture = "ok"
    /\ failfast = FALSE
    /\ output_format = "text"
    /\ result = NewResult
    /\ outcome = [success |-> TRUE, expectedFailure |-> FALSE]
    /\ classSetupFailed = FALSE
    /\ pc = "start"
    /\ idx = 0
    /\ now = 0
    /\ run_start = 0
    /\ invoked = {}
    /\ stopped = {}
    /\ console = None
    /\ report = None
    /\ exc = "none"
    /\ exitCode = None

Init ==
    /\ suite \in Suites
    /\ fixture \in (IF suite = << >> THEN {"ok"} ELSE Fixtures)
    /\ failfast \in BOOLEAN
    /\ output_format \in {"text", "html"}
    /\ result = NewResult
    /\ outcome = [success |-> TRUE, expectedFailure |-> FALSE]
    /\ classSetupFailed = FALSE
    /\ pc = "start"
    /\ idx = 0
    /\ now = 0
    /\ run_start = 0
    /\ invoked = {}
    /\ stopped = {}
    /\ console = None
    /\ report = None
    /\ exc = "none"
    /\ exitCode = None
    /\ OtherProgramsAtRest

Inputs == << suite, fixture, failfast, output_format >>

\* where the run goes after a callback: on with the run, or out of it with
\* the exception the callback raised
After(out, next) == IF out.exc = "none" THEN next ELSE "raised"

\* EnhancedTestRunner.run(test): take start_time and enter super().run, which
\* makes the result and sets its failfast
Run ==
    /\ pc = "start"
    /\ run_start' = now
    /\ result' = [NewResult EXCEPT !.failfast = failfast]
    /\ pc' = "loop"
    /\ UNCHANGED << Inputs, OtherPrograms, outcome, classSetupFailed, idx, now, invoked, stopped,
                    console, report, exc, exitCode >>

\* the suite's loop ends: every unit was reached, or result.shouldStop is set
SuiteBreak ==
    /\ pc = "loop"
    /\ result.shouldStop \/ idx = Len(suite)
    /\ pc' = "tearDownClass"
    /\ UNCHANGED << Inputs, OtherPrograms, result, outcome, classSetupFailed, idx, now, run_start,
                    invoked, stopped, console, report, exc, exitCode >>

\* the loop reaches the first unit: the class's setUpClass runs; when it
\* raises, the framework reports it on an _ErrorHolder (addSkip for SkipTest,
\* addError otherwise), marks the class failed and skips over the unit
ClassSetUp ==
    /\ pc = "loop"
    /\ ~result.shouldStop
    /\ idx = 0
    /\ idx < Len(suite)
    /\ LET out == CASE fixture = "setUpClassError" ->
                           addError(result, ErrorHolder(1), ExcInfo("error", FixtureText), now)
                    [] fixture = "setUpClassSkip" ->
                           addSkip(result, ErrorHolder(1), FixtureText)
                    [] OTHER -> Return(result)
           failed == fixture \in {"setUpClassError", "setUpClassSkip"}
       IN  /\ result' = out.res
           /\ exc' = out.exc
           /\ classSetupFailed' = failed
           /\ idx' = IF out.exc = "none" THEN 1 ELSE idx
           /\ pc' = After(out, IF failed THEN "loop" ELSE "startTest")
    /\ UNCHANGED << Inputs, OtherPrograms, outcome, now, run_start, invoked, stopped, console,
                    report, exitCode >>

\* the loop reaches a later unit of the class: it is run unless the class's
\* setUpClass failed
SuiteNext ==
    /\ pc = "loop"
    /\ ~result.shouldStop
    /\ 0 < idx
    /\ idx < Len(suite)
    /\ idx' = idx + 1
    /\ pc' = IF classSetupFailed THEN "loop" ELSE "startTest"
    /\ UNCHANGED << Inputs, OtherPrograms, result, outcome, classSetupFailed, now, run_start,
                    invoked, stopped, console, report, exc, exitCode >>

\* TestCase.run: result.startTest(self), then the skip decoration is looked at
StartTest ==
    /\ pc = "startTest"
    /\ LET out == startTest(result, Case(idx), now)
       IN  /\ result' = out.res
           /\ exc' = out.exc
           /\ pc' = After(out, IF suite[idx].skip THEN "skipDecorated" ELSE "setUp")
    /\ outcome' = [success |-> TRUE, expectedFailure |-> FALSE]
    /\ UNCHANGED << Inputs, OtherPrograms, classSetupFailed, idx, now, run_start, invoked, stopped,
                    console, report, exitCode >>

\* the unit is decorated with skip: addSkip with the decoration's reason, and
\* the unit is over
SkipDecorated ==
    /\ pc = "skipDecorated"
    /\ LET out == addSkip(result, Case(idx), suite[idx].text)
       IN  /\ result' = out.res
           /\ exc' = out.exc
           /\ pc' = After(out, "stopTest")
    /\ UNCHANGED << Inputs, OtherPrograms, outcome, classSetupFailed, idx, now, run_start, invoked,
                    stopped, console, report, exitCode >>

\* what the framework does with the way a part of the unit (setUp, the test
\* method, tearDown) ended; expecting is outcome.expecting_failure
PartExecutor(R, O, test, kind, text, expecting, t) ==
    CASE kind = "ok" ->
             [out |-> Return(R), outcome |-> O]
      [] kind = "skip" ->
             [out |-> addSkip(R, test, text), outcome |-> [O EXCEPT !.success = FALSE]]
      [] kind \in {"fail", "error"} /\ expecting ->
             [out |-> Return(R), outcome |-> [O EXCEPT !.expectedFailure = TRUE]]
      [] kind \in {"fail", "error"} /\ ~expecting ->
             [out |-> reportError(R, test, ExcInfo(kind, text), t),
              outcome |-> [O EXCEPT !.success = FALSE]]
      [] kind = "subfail" /\ expecting ->
             [out |-> Return(R), outcome |-> [O EXCEPT !.expectedFailure = TRUE]]
      [] kind = "subfail" /\ ~expecting ->
             [out |-> addSubTest(R, test, ExcInfo(kind, text)),
              outcome |-> [O EXCEPT !.success = FALSE]]

\* setUp runs; the test method and tearDown follow only if it succeeded
CallSetUp ==
    /\ pc = "setUp"
    /\ LET p == PartExecutor(result, outcome, Case(idx), suite[idx].setUp,
                             suite[idx].text, FALSE, now)
       IN  /\ result' = p.out.res
           /\ exc' = p.out.exc
           /\ outcome' = p.outcome
           /\ pc' = After(p.out, IF p.outcome.success THEN "testMethod" ELSE "conclude")
    /\ UNCHANGED << Inputs, OtherPrograms, classSetupFailed, idx, now, run_start, invoked, stopped,
                    console, report, exitCode >>

\* the test method is invoked and takes some time
CallTestMethod ==
    /\ pc = "testMethod"
    /\ \E d \in Durations :
        /\ now' = now + d
        /\ LET p == PartExecutor(result, outcome, Case(idx), suite[idx].body,
                                 suite[idx].text, suite[idx].xfail, now + d)
           IN  /\ result' = p.out.res
               /\ exc' = p.out.exc
               /\ outcome' = p.outcome
               /\ pc' = After(p.out, "tearDown")
    /\ invoked' = invoked \cup {idx}
    /\ UNCHANGED << Inputs, OtherPrograms, classSetupFailed, idx, run_start, stopped, console,
                    report, exitCode >>

\* tearDown runs whatever the test method did
CallTearDown ==
    /\ pc = "tearDown"
    /\ LET p == PartExecutor(result, outcome, Case(idx), suite[idx].tearDown,
                             suite[idx].text, FALSE, now)
       IN  /\ result' = p.out.res
           /\ exc' = p.out.exc
           /\ outcome' = p.outcome
           /\ pc' = After(p.out, "conclude")
    /\ UNCHANGED << Inputs, OtherPrograms, classSetupFailed, idx, now, run_start, invoked, stopped,
                    console, report, exitCode >>

\* the end of TestCase.run: a unit all of whose parts succeeded is reported
\* with addSuccess, or with addExpectedFailure / addUnexpectedSuccess when it
\* is decorated with expectedFailure; any other unit was reported already
Conclude ==
    /\ pc = "conclude"
    /\ LET out == IF ~outcome.success THEN Return(result)
                  ELSE IF ~suite[idx].xfail THEN addSuccess(result, Case(idx), now)
                  ELSE IF outcome.expectedFailure
                       THEN addExpectedFailure(result, Case(idx),
                                               ExcInfo(suite[idx].body, suite[idx].text))
                       ELSE addUnexpectedSuccess(result, Case(idx))
       IN  /\ result' = out.res
           /\ exc' = out.exc
           /\ pc' = After(out, "stopTest")
    /\ UNCHANGED << Inputs, OtherPrograms, outcome, classSetupFailed, idx, now, run_start, invoked,
                    stopped, console, report, exitCode >>

\* result.stopTest(self), inherited unchanged; back to the suite's loop
StopTest ==
    /\ pc = "stopTest"
    /\ stopped' = stopped \cup {idx}
    /\ pc' = "loop"
    /\ UNCHANGED << Inputs, OtherPrograms, result, outcome, classSetupFailed, idx, now, run_start,
                    invoked, console, report, exc, exitCode >>

\* after the loop the class's tearDownClass runs, unless no class was entered
\* or its setUpClass failed; when it raises, addError is called on an
\* _ErrorHolder
TearDownClass ==
    /\ pc = "tearDownClass"
    /\ LET out == IF idx > 0 /\ ~classSetupFailed /\ fixture = "tearDownClassError"
                  THEN addError(result, ErrorHolder(2), ExcInfo("error", FixtureText), now)
                  ELSE Return(result)
       IN  /\ result' = out.res
           /\ exc' = out.exc
           /\ pc' = After(out, "summary")
    /\ UNCHANGED << Inputs, OtherPrograms, outcome, classSetupFailed, idx, now, run_start, invoked,
                    stopped, console, report, exitCode >>

\* a slip in the reporter: the records taken off the recorder as they are printed
PrintSummaryDraining ==
    /\ pc = "summary"
    /\ console' = Some(print_summary(result, now - run_start))
    /\ result' = [result EXCEPT !.test_results = << >>]
    /\ pc' = IF output_format = "html" THEN "html" ELSE "return"
    /\ UNCHANGED << Inputs, OtherPrograms, outcome, classSetupFailed, idx, now, run_start,
                    invoked, stopped, report, exc, exitCode >>

\* self._print_summary(result, execution_time)
PrintSummary ==
    /\ pc = "summary"
    /\ console' = Some(print_summary(result, now - run_start))
    /\ pc' = IF output_format = "html" THEN "html" ELSE "return"
    /\ UNCHANGED << Inputs, OtherPrograms, result, outcome, classSetupFailed, idx, now, run_start,
                    invoked, stopped, report, exc, exitCode >>

\* self._generate_html_report(result, execution_time)
GenerateHtmlReport ==
    /\ pc = "html"
    /\ report' = Some(generate_html_report(result, now - run_start))
    /\ pc' = "return"
    /\ UNCHANGED << Inputs, OtherPrograms, result, outcome, classSetupFailed, idx, now, run_start,
                    invoked, stopped, console, exc, exitCode >>

\* a slip in the exit status: the negation forgotten
ExitStatusInverted(R) == IF wasSuccessful(R) THEN 1 ELSE 0

\* a slip in the exit status: a run of no tests counted as a failed run
ExitStatusNoTests(R) == IF wasSuccessful(R) /\ R.testsRun > 0 THEN 0 ELSE 1

\* the argument of sys.exit: not result.wasSuccessful()
ExitStatus(R) == IF wasSuccessful(R) THEN 0 ELSE 1

\* run returns the result and the entry point exits with
\* not result.wasSuccessful()
Exit ==
    /\ pc = "return"
    /\ exitCode' = Some(ExitStatus(result))
    /\ pc' = "done"
    /\ UNCHANGED << Inputs, OtherPrograms, result, outcome, classSetupFailed, idx, now, run_start,
                    invoked, stopped, console, report, exc >>

\* an exception raised by a callback leaves run and the entry point: nothing
\* catches it, and the process ends with a traceback and status 1
Propagate ==
    /\ pc = "raised"
    /\ exitCode' = Some(1)
    /\ pc' = "crashed"
    /\ UNCHANGED << Inputs, OtherPrograms, result, outcome, classSetupFailed, idx, now, run_start,
                    invoked, stopped, console, report, exc >>

Next ==
    \/ Run
    \/ SuiteBreak
    \/ ClassSetUp
    \/ SuiteNext
    \/ StartTest
    \/ SkipDecorated
    \/ CallSetUp
    \/ CallTestMethod
    \/ CallTearDown
    \/ Conclude
    \/ StopTest
    \/ TearDownClass
    \/ PrintSummary
    \/ GenerateHtmlReport
    \/ Exit
    \/ Propagate

Spec == Init /\ [][Next]_vars

\* ------------------------------------------- callbacks called from threads

\* The statements of the TestResult callbacks, one step each, run by several
\* threads on one recorder: each thread takes the next pending unit, calls
\* startTest, then the add* callback of the unit's outcome, and goes back for
\* the next unit. The units are those that end in one callback: a passing
\* one, a failing one, an erroring one and a skipped one.
WorkerKinds == { u \in UnitKinds : /\ ~u.xfail
                                   /\ u.setUp = "ok"
                                   /\ u.tearDown = "ok"
                                   /\ u.body \in { "ok", "fail", "error" } }

WorkerSuites == UNION { [1..n -> WorkerKinds] : n \in 0..MaxUnits }

InitWorkers ==
    /\ suite \in WorkerSuites
    /\ fixture = "ok"
    /\ failfast = FALSE
    /\ output_format = "text"
    /\ result = NewResult
    /\ outcome = [success |-> TRUE, expectedFailure |-> FALSE]
    /\ classSetupFailed = FALSE
    /\ pc = "workers"
    /\ idx = 1
    /\ now = 0
    /\ run_start = 0
    /\ invoked = {}
    /\ stopped = {}
    /\ console = None
    /\ report = None
    /\ exc = "none"
    /\ exitCode = None
    /\ workers = [w \in Workers |-> IdleWorker]
    /\ client = None
    /\ radar = None
    /\ manager = None
    /\ test_suite = None

\* the callback a unit's outcome is reported with
CallbackOf(u) ==
    CASE u.skip -> "addSkip"
      [] ~u.skip /\ u.body = "ok" -> "addSuccess"
      [] ~u.skip /\ u.body = "fail" -> "addFailure"
      [] ~u.skip /\ u.body = "error" -> "addError"

\* record status of each callback
StatusOf(callback) ==
    CASE callback = "addSuccess" -> "SUCCESS"
      [] callback = "addFailure" -> "FAILURE"
      [] callback = "addError" -> "ERROR"
      [] callback = "addSkip" -> "SKIP"

\* the details each callback puts in its record
DetailsOf(u, test) ==
    CASE CallbackOf(u) = "addSuccess" -> None
      [] CallbackOf(u) = "addSkip" -> Some(u.text)
      [] OTHER -> Some(ExcInfoToString(ExcInfo(u.body, u.text), test))

WorkerFrame ==
    UNCHANGED << suite, fixture, failfast, output_format, outcome,
                 classSetupFailed, pc, run_start, invoked, stopped, console,
                 report, exc, exitCode, client, radar, manager, test_suite >>

\* a free thread takes the next pending unit
WorkerTake(w) ==
    /\ workers[w].pc = "idle"
    /\ idx <= Len(suite)
    /\ workers' = [workers EXCEPT ![w] = [pc |-> "startTest", test |-> idx, execution_time |-> 0]]
    /\ idx' = idx + 1
    /\ UNCHANGED << result, now >>
    /\ WorkerFrame

\* startTest: super().startTest(test)
WorkerSuperStartTest(w) ==
    /\ workers[w].pc = "startTest"
    /\ result' = [result EXCEPT !.testsRun = @ + 1]
    /\ workers' = [workers EXCEPT ![w].pc = "start_times"]
    /\ UNCHANGED << idx, now >>
    /\ WorkerFrame

\* startTest: self.start_times[test] = time.time(); the unit then runs and
\* its callback is entered
WorkerStartTime(w) ==
    /\ workers[w].pc = "start_times"
    /\ result' = [result EXCEPT !.start_times = Put(@, Case(workers[w].test), now)]
    /\ workers' = [workers EXCEPT ![w].pc = "super"]
    /\ UNCHANGED << idx, now >>
    /\ WorkerFrame

\* add*: the super() call that opens the callback
WorkerSuper(w) ==
    /\ workers[w].pc = "super"
    /\ LET u == suite[workers[w].test]
           test == Case(workers[w].test)
           callback == CallbackOf(u)
       IN  /\ result' = CASE callback = "addSuccess" -> result
                          [] callback = "addFailure" ->
                                 superAddFailure(result, test, ExcInfo(u.body, u.text))
                          [] callback = "addError" ->
                                 superAddError(result, test, ExcInfo(u.body, u.text))
                          [] callback = "addSkip" -> superAddSkip(result, test, u.text)
           /\ workers' = [workers EXCEPT
                  ![w].pc = IF callback = "addSkip" THEN "append" ELSE "execution_time"]
    /\ UNCHANGED << idx, now >>
    /\ WorkerFrame

\* add*: execution_time = time.time() - self.start_times[test]
WorkerExecutionTime(w) ==
    /\ workers[w].pc = "execution_time"
    /\ \E d \in Durations :
           /\ now' = now + d
           /\ workers' = [workers EXCEPT
                  ![w].pc = "execution_times",
                  ![w].execution_time = now' - result.start_times[Case(workers[w].test)]]
    /\ UNCHANGED << result, idx >>
    /\ WorkerFrame

\* add*: self.execution_times[test] = execution_time
WorkerSetExecutionTime(w) ==
    /\ workers[w].pc = "execution_times"
    /\ result' = [result EXCEPT
           !.execution_times = Put(@, Case(workers[w].test), workers[w].execution_time)]
    /\ workers' = [workers EXCEPT ![w].pc = "append"]
    /\ UNCHANGED << idx, now >>
    /\ WorkerFrame

\* add*: self.test_results.append({...}), the dict built before the call;
\* the callback returns and the thread is free again
WorkerAppend(w) ==
    /\ workers[w].pc = "append"
    /\ LET u == suite[workers[w].test]
           test == Case(workers[w].test)
       IN  result' = [result EXCEPT
               !.test_results = Append(@, Record(test, StatusOf(CallbackOf(u)),
                                                 workers[w].execution_time,
                                                 DetailsOf(u, test)))]
    /\ workers' = [workers EXCEPT ![w] = IdleWorker]
    /\ UNCHANGED << idx, now >>
    /\ WorkerFrame

NextWorkers ==
    \E w \in Workers :
        \/ WorkerTake(w)
        \/ WorkerSuperStartTest(w)
        \/ WorkerStartTime(w)
        \/ WorkerSuper(w)
        \/ WorkerExecutionTime(w)
        \/ WorkerSetExecutionTime(w)
        \/ WorkerAppend(w)

SpecWorkers == InitWorkers /\ [][NextWorkers]_vars

\* ------------------------------------------------------------ WebAPIClient

MaxCalls == 2

BaseUrls == { << "h" >>, << "h", "/" >> }

\* api_key: None (the default), the empty string, or a key
ApiKeys == { None, Some(<< >>), Some(<< "k" >>) }

Endpoints == { << "i" >>, << "/", "i" >> }

\* params of get, data of post and put
Payloads == { None, Some(<< "p" >>) }

\* what the session does with a request: the transport raises, or a response
\* comes back with a status code and a body that is JSON or is not
TransportErrors == { "ConnectionError", "Timeout" }

Responses ==
    [error : { "none" }, status_code : { 200, 204, 404 }, body : { None, Some(<< "j" >>) }]

Answers ==
    { [error |-> e, status_code |-> 0, body |-> None] : e \in TransportErrors } \cup Responses

\* requests.Session(): the session's default headers
DefaultHeaders == [h \in { "User-Agent" } |-> << "python-requests" >>]

\* a slip in __init__: the header set whatever api_key is
WebAPIClientAlwaysAuthorized(base_url, api_key) ==
    [base_url |-> base_url, api_key |-> api_key,
     headers |-> Put(DefaultHeaders, "Authorization",
                     << "Bearer " >> \o (IF api_key = None THEN << "None" >> ELSE api_key[1])),
     calls |-> 0, last |-> None]

\* WebAPIClient.__init__(base_url, api_key): the header is set when api_key
\* is truthy
WebAPIClient(base_url, api_key) ==
    [base_url |-> base_url, api_key |-> api_key,
     headers |-> IF api_key # None /\ api_key[1] # << >>
                 THEN Put(DefaultHeaders, "Authorization", << "Bearer " >> \o api_key[1])
                 ELSE DefaultHeaders,
     calls |-> 0, last |-> None]

\* url = f"{self.base_url}/{endpoint}"
Url(base_url, endpoint) == base_url \o << "/" >> \o endpoint

\* the request a method hands to its session method: get passes params,
\* post and put pass json, delete passes the url alone
Request(C, method, endpoint, payload) ==
    [method |-> method, url |-> Url(C.base_url, endpoint),
     params |-> IF method = "get" THEN payload ELSE None,
     json |-> IF method \in { "post", "put" } THEN payload ELSE None,
     headers |-> C.headers]

\* response.raise_for_status() raises HTTPError for a 4xx or 5xx status
RaisesForStatus(response) == response.status_code >= 400

\* what the call gives its caller: the exception the session method raised,
\* the HTTPError of raise_for_status, the JSONDecodeError of response.json(),
\* the decoded body, or for delete the status code
CallOutcome(method, answer) ==
    IF answer.error # "none" THEN [raised |-> answer.error, returned |-> None]
    ELSE IF RaisesForStatus(answer) THEN [raised |-> "HTTPError", returned |-> None]
    ELSE IF method = "delete" THEN [raised |-> "none", returned |-> Some(answer.status_code)]
    ELSE IF answer.body = None THEN [raised |-> "JSONDecodeError", returned |-> None]
    ELSE [raised |-> "none", returned |-> answer.body]

\* a slip in the methods: the request sent again after a transport error
callRetrying(C, method, endpoint, payload, answer) ==
    [C EXCEPT
        !.calls = @ + 1,
        !.last = Some([method |-> method, endpoint |-> endpoint, payload |-> payload,
                       answer |-> answer,
                       sent |-> IF answer.error # "none"
                                THEN << Request(C, method, endpoint, payload),
                                        Request(C, method, endpoint, payload) >>
                                ELSE << Request(C, method, endpoint, payload) >>,
                       outcome |-> CallOutcome(method, answer)])]

\* WebAPIClient.get / post / put / delete: one call of the session method,
\* then raise_for_status, then the value returned
call(C, method, endpoint, payload, answer) ==
    [C EXCEPT
        !.calls = @ + 1,
        !.last = Some([method |-> method, endpoint |-> endpoint, payload |-> payload,
                       answer |-> answer,
                       sent |-> << Request(C, method, endpoint, payload) >>,
                       outcome |-> CallOutcome(method, answer)])]

ClientFrame == UNCHANGED << RunnerVars, workers, radar, manager, test_suite >>

InitClient ==
    /\ RunnerAtRest
    /\ OtherProgramsAtRest

\* client = WebAPIClient(base_url, api_key)
Construct ==
    /\ client = None
    /\ \E base_url \in BaseUrls, api_key \in ApiKeys :
           client' = Some(WebAPIClient(base_url, api_key))
    /\ ClientFrame

\* client.get(endpoint, params)
Get ==
    /\ client # None
    /\ client[1].calls < MaxCalls
    /\ \E endpoint \in Endpoints, params \in Payloads, answer \in Answers :
           client' = Some(call(client[1], "get", endpoint, params, answer))
    /\ ClientFrame

\* client.post(endpoint, data)
Post ==
    /\ client # None
    /\ client[1].calls < MaxCalls
    /\ \E endpoint \in Endpoints, data \in Payloads, answer \in Answers :
           client' = Some(call(client[1], "post", endpoint, data, answer))
    /\ ClientFrame

\* client.put(endpoint, data)
PutItem ==
    /\ client # None
    /\ client[1].calls < MaxCalls
    /\ \E endpoint \in Endpoints, data \in Payloads, answer \in Answers :
           client' = Some(call(client[1], "put", endpoint, data, answer))
    /\ ClientFrame

\* client.delete(endpoint)
Delete ==
    /\ client # None
    /\ client[1].calls < MaxCalls
    /\ \E endpoint \in Endpoints, answer \in Answers :
           client' = Some(call(client[1], "delete", endpoint, None, answer))
    /\ ClientFrame

NextClient == Construct \/ Get \/ Post \/ PutItem \/ Delete

SpecClient == InitClient /\ [][NextClient]_vars

\* ---------------------------------------------------------- radar files

MaxRows == 3

MaxLimit == 2

\* the header line of the radar file
Header == << "id", "type", "date", "lat", "lon", "speed" >>

\* The rows the files are made of, as csv.reader gives them (field k of the
\* code is field k + 1 here): a complete row, one whose speed is not an
\* integer, one with an empty latitude, one with the identifier alone, one
\* whose latitude is not a number and whose speed is empty, one with five
\* fields, and a blank line.
RowKinds ==
    { << "a", "ETF", "", "1", "0", "50" >>,
      << "b", "ETD", "", "2", "1", "50.0" >>,
      << "c", "ETF", "", "", "1", "90" >>,
      << "d" >>,
      << "e", "ETT", "", "x", "0", "" >>,
      << "f", "ETF", "", "0", "2.0" >>,
      << >> }

\* a path: no file there, an empty file, or a header line and data rows
Files ==
    { [exists |-> FALSE, lines |-> << >>], [exists |-> TRUE, lines |-> << >>] }
    \cup { [exists |-> TRUE, lines |-> << Header >> \o rows] :
               rows \in UNION { [1..n -> RowKinds] : n \in 0..MaxRows } }

\* the reference points of find_closest_radars
Coordinates == { 0, 1 }

\* int(field): the value, or None for ValueError
ParseInt(field) ==
    CASE field = "0" -> Some(0)
      [] field = "1" -> Some(1)
      [] field = "2" -> Some(2)
      [] field = "50" -> Some(50)
      [] field = "90" -> Some(90)
      [] OTHER -> None

\* float(field): the value, or None for ValueError
ParseFloat(field) ==
    CASE field = "2.0" -> Some(2)
      [] field = "50.0" -> Some(50)
      [] OTHER -> ParseInt(field)

\* calculate_distance(lat1, lon1, lat2, lon2): the Haversine distance, here
\* on a small flat grid of whole degrees, where it orders the points as the
\* squared straight-line distance does
calculate_distance(lat1, lon1, lat2, lon2) ==
    (lat2 - lat1) * (lat2 - lat1) + (lon2 - lon1) * (lon2 - lon1)

\* round(speed_sum / speed_count, 2), in hundredths, ties to the even digit
RoundedAverage(speed_sum, speed_count) ==
    LET q == (100 * speed_sum) \div speed_count
        r == (100 * speed_sum) % speed_count
    IN  IF 2 * r > speed_count \/ (2 * r = speed_count /\ q % 2 = 1) THEN q + 1 ELSE q

\* a slip in the loop body: a row without a valid speed is left out of the
\* count of radars and of types
AnalyzeRowStrict(row, acc) ==
    LET radar_type == IF Len(row) > 1 THEN row[2] ELSE "Unknown"
        speed == IF Len(row) > 5 /\ row[6] # "" THEN ParseInt(row[6]) ELSE None
    IN  IF speed = None THEN acc
        ELSE [acc EXCEPT
                 !.total_radars = @ + 1,
                 !.radar_types = Put(@, radar_type,
                     IF radar_type \in DOMAIN @ THEN @[radar_type] + 1 ELSE 1),
                 !.speed_limits = Put(@, speed[1],
                     IF speed[1] \in DOMAIN @ THEN @[speed[1]] + 1 ELSE 1),
                 !.speed_sum = @ + speed[1],
                 !.speed_count = @ + 1]

\* the body of the loop of analyze_radar_data for one row: the radar and its
\* type are counted, and the speed when the field is there and is an integer
AnalyzeRow(row, acc) ==
    LET radar_type == IF Len(row) > 1 THEN row[2] ELSE "Unknown"
        speed == IF Len(row) > 5 /\ row[6] # "" THEN ParseInt(row[6]) ELSE None
        counted == [acc EXCEPT
                       !.total_radars = @ + 1,
                       !.radar_types = Put(@, radar_type,
                           IF radar_type \in DOMAIN @ THEN @[radar_type] + 1 ELSE 1)]
    IN  IF speed = None THEN counted
        ELSE [counted EXCEPT
                 !.speed_limits = Put(@, speed[1],
                     IF speed[1] \in DOMAIN @ THEN @[speed[1]] + 1 ELSE 1),
                 !.speed_sum = @ + speed[1],
                 !.speed_count = @ + 1]

RECURSIVE AnalyzeRows(_, _)
\* the loop of analyze_radar_data over the data rows, from the statistics
\* and the sums so far
AnalyzeRows(rows, acc) ==
    IF rows = << >> THEN acc
    ELSE AnalyzeRows(Tail(rows), AnalyzeRow(Head(rows), acc))

NoCall == [function |-> "none", file |-> [exists |-> FALSE, lines |-> << >>],
           lat |-> 0, lon |-> 0, limit |-> 0, opened |-> FALSE, raised |-> "none",
           stats |-> None, closest |-> None]

\* a slip: the existence check left out, the error left to open()
analyze_radar_data_unchecked(file) ==
    LET c == [NoCall EXCEPT !.function = "analyze_radar_data", !.file = file]
    IN  IF ~file.exists THEN [c EXCEPT !.opened = TRUE, !.raised = "FileNotFoundError"]
        ELSE [c EXCEPT !.opened = TRUE, !.raised = "StopIteration"]

\* analyze_radar_data(csv_file_path)
analyze_radar_data(file) ==
    LET c == [NoCall EXCEPT !.function = "analyze_radar_data", !.file = file]
    IN  IF ~file.exists THEN [c EXCEPT !.raised = "FileNotFoundError"]
        ELSE IF file.lines = << >> THEN [c EXCEPT !.opened = TRUE, !.raised = "StopIteration"]
        ELSE LET acc == AnalyzeRows(Tail(file.lines),
                            [total_radars |-> 0, radar_types |-> << >>,
                             speed_limits |-> << >>, speed_sum |-> 0, speed_count |-> 0])
             IN  [c EXCEPT
                     !.opened = TRUE,
                     !.stats = Some([total_radars |-> acc.total_radars,
                                     radar_types |-> acc.radar_types,
                                     speed_limits |-> acc.speed_limits,
                                     avg_speed_limit |->
                                         IF acc.speed_count > 0
                                         THEN RoundedAverage(acc.speed_sum, acc.speed_count)
                                         ELSE 0])]

RECURSIVE CollectRadars(_, _, _)
\* the loop of find_closest_radars: the (radar_id, distance) pairs of the
\* rows that have both coordinates, in file order
CollectRadars(rows, lat, lon) ==
    IF rows = << >> THEN << >>
    ELSE LET row == Head(rows)
             rest == CollectRadars(Tail(rows), lat, lon)
         IN  IF Len(row) >= 5 /\ row[4] # "" /\ row[5] # ""
                /\ ParseFloat(row[4]) # None /\ ParseFloat(row[5]) # None
             THEN << << row[1], calculate_distance(lat, lon, ParseFloat(row[4])[1],
                                                   ParseFloat(row[5])[1]) >> >> \o rest
             ELSE rest

RECURSIVE Insert(_, _)
\* p put after every pair of the sorted list that is not farther than p
Insert(sorted, p) ==
    IF sorted = << >> THEN << p >>
    ELSE IF Head(sorted)[2] <= p[2] THEN << Head(sorted) >> \o Insert(Tail(sorted), p)
    ELSE << p >> \o sorted

\* a slip: the sort left out
NotSorted(radars) == radars

RECURSIVE Sorted(_)
\* sorted(radars, key=lambda x: x[1]): stable, by distance
Sorted(radars) ==
    IF radars = << >> THEN << >>
    ELSE Insert(Sorted(SubSeq(radars, 1, Len(radars) - 1)), radars[Len(radars)])

\* radars[:limit] for limit >= 0
Slice(radars, limit) == SubSeq(radars, 1, IF limit < Len(radars) THEN limit ELSE Len(radars))

\* find_closest_radars(csv_file_path, lat, lon, limit)
find_closest_radars(file, lat, lon, limit) ==
    LET c == [NoCall EXCEPT !.function = "find_closest_radars", !.file = file,
                            !.lat = lat, !.lon = lon, !.limit = limit]
    IN  IF ~file.exists THEN [c EXCEPT !.raised = "FileNotFoundError"]
        ELSE IF file.lines = << >> THEN [c EXCEPT !.opened = TRUE, !.raised = "StopIteration"]
        ELSE [c EXCEPT
                 !.opened = TRUE,
                 !.closest = Some(Slice(Sorted(CollectRadars(Tail(file.lines), lat, lon)),
                                        limit))]

RadarFrame == UNCHANGED << RunnerVars, workers, client, manager, test_suite >>

InitRadar ==
    /\ RunnerAtRest
    /\ OtherProgramsAtRest

\* stats = analyze_radar_data(path)
AnalyzeRadarData ==
    /\ radar = None
    /\ \E file \in Files : radar' = Some(analyze_radar_data(file))
    /\ RadarFrame

\* closest = find_closest_radars(path, lat, lon, limit)
FindClosestRadars ==
    /\ radar = None
    /\ \E file \in Files, lat \in Coordinates, lon \in Coordinates, limit \in 1..MaxLimit :
           radar' = Some(find_closest_radars(file, lat, lon, limit))
    /\ RadarFrame

NextRadar == AnalyzeRadarData \/ FindClosestRadars

SpecRadar == InitRadar /\ [][NextRadar]_vars

\* ---------------------------------------------------------------- TestSuite

\* what one unit adds to the counters of the standard result during
\* test_runner.run: testsRun, failures, errors and skipped
UnitCounts(u) ==
    IF u.skip THEN [run |-> 1, failures |-> 0, errors |-> 0, skipped |-> 1]
    ELSE IF u.setUp # "ok" THEN [run |-> 1, failures |-> 0, errors |-> 1, skipped |-> 0]
    ELSE [run |-> 1,
          failures |-> IF ~u.xfail /\ u.body \in { "fail", "subfail" } THEN 1 ELSE 0,
          errors |-> (IF ~u.xfail /\ u.body = "error" THEN 1 ELSE 0)
                     + (IF u.tearDown # "ok" THEN 1 ELSE 0),
          skipped |-> IF u.body = "skip" THEN 1 ELSE 0]

\* what the class fixture adds: an error or a skip reported for the class
FixtureCounts(fx) ==
    [run |-> 0, failures |-> 0,
     errors |-> IF fx \in { "setUpClassError", "tearDownClassError" } THEN 1 ELSE 0,
     skipped |-> IF fx = "setUpClassSkip" THEN 1 ELSE 0]

AddCounts(a, b) ==
    [run |-> a.run + b.run, failures |-> a.failures + b.failures,
     errors |-> a.errors + b.errors, skipped |-> a.skipped + b.skipped]

RECURSIVE RunCounts(_, _)
\* result = self.test_runner.run(tests): the counters of the result; no unit
\* of a class whose setUpClass raised is run
RunCounts(tests, fx) ==
    IF tests = << >> THEN [run |-> 0, failures |-> 0, errors |-> 0, skipped |-> 0]
    ELSE IF Len(tests) = 1
         THEN AddCounts(FixtureCounts(fx),
                        IF fx \in { "setUpClassError", "setUpClassSkip" }
                        THEN [run |-> 0, failures |-> 0, errors |-> 0, skipped |-> 0]
                        ELSE UnitCounts(tests[1]))
         ELSE AddCounts(RunCounts(SubSeq(tests, 1, Len(tests) - 1), fx),
                        IF fx \in { "setUpClassError", "setUpClassSkip" }
                        THEN [run |-> 0, failures |-> 0, errors |-> 0, skipped |-> 0]
                        ELSE UnitCounts(tests[Len(tests)]))

\* success_rate as written with :.2f, in hundredths of a percent
SuccessRate(results) ==
    IF results.run > 0
    THEN LET n == (results.run - results.failures - results.errors) * 10000
             q == n \div results.run
             r == n % results.run
         IN  IF 2 * r > results.run \/ (2 * r = results.run /\ q % 2 = 1) THEN q + 1 ELSE q
    ELSE 0

\* run_all_tests / run_specific_tests: the run, self.results, _log_results
\* and the summary file it writes
run_tests_of_suite(function, tests, fx, duration) ==
    LET counts == RunCounts(tests, fx)
        results == [run |-> counts.run, failures |-> counts.failures,
                    errors |-> counts.errors, skipped |-> counts.skipped,
                    duration |-> duration]
    IN  [function |-> function, tests |-> tests, fixture |-> fx, results |-> results,
         summary_file |-> [duration |-> results.duration, tests_run |-> results.run,
                           failures |-> results.failures, errors |-> results.errors,
                           skipped |-> results.skipped,
                           success_rate |-> SuccessRate(results)]]

TestSuiteFrame == UNCHANGED << RunnerVars, workers, client, radar, manager >>

InitTestSuite ==
    /\ RunnerAtRest
    /\ OtherProgramsAtRest

\* suite.run_all_tests()
RunAllTests ==
    /\ test_suite = None
    /\ \E tests \in Suites, d \in Durations :
           \E fx \in (IF tests = << >> THEN { "ok" } ELSE Fixtures) :
               test_suite' = Some(run_tests_of_suite("run_all_tests", tests, fx, d))
    /\ TestSuiteFrame

\* suite.run_specific_tests(test_pattern)
RunSpecificTests ==
    /\ test_suite = None
    /\ \E tests \in Suites, d \in Durations :
           \E fx \in (IF tests = << >> THEN { "ok" } ELSE Fixtures) :
               test_suite' = Some(run_tests_of_suite("run_specific_tests", tests, fx, d))
    /\ TestSuiteFrame

NextTestSuite == RunAllTests \/ RunSpecificTests

SpecTestSuite == InitTestSuite /\ [][NextTestSuite]_vars

\* -------------------------------------------------------- TestDataManager

MaxOps == 3

\* keys given to set and get: two strings and the integer 1
Keys == { << "str", "a" >>, << "str", "1" >>, << "int", "1" >> }

\* values given to set: a string, a number, and a Python set, which json
\* cannot write
Values == { << "str", "v" >>, << "int", "2" >>, << "set", "s" >> }

\* the data file before the manager is constructed: no file, a file that
\* is not JSON, an empty JSON object, a JSON object with one entry
InitialFiles ==
    { [kind |-> "missing", entries |-> << >>],
      [kind |-> "text", entries |-> << >>],
      [kind |-> "json", entries |-> << >>],
      [kind |-> "json", entries |-> << << << "str", "a" >>, << "str", "v" >> >> >>] }

\* the position of key in the dict d (a sequence of pairs in insertion
\* order), 0 when the key is not there
IndexOf(d, key) ==
    IF \E i \in 1..Len(d) : d[i][1] = key
    THEN CHOOSE i \in 1..Len(d) : d[i][1] = key
    ELSE 0

\* d[key] = value
SetItem(d, key, value) ==
    IF IndexOf(d, key) = 0 THEN Append(d, << key, value >>)
    ELSE [d EXCEPT ![IndexOf(d, key)] = << key, value >>]

\* d.get(key, default), default None
GetItem(d, key) == IF IndexOf(d, key) = 0 THEN None ELSE Some(d[IndexOf(d, key)][2])

\* the key as json.dump writes it: every key becomes a string
JsonKey(key) == << "str", key[2] >>

\* json.dump(data, f) after open(file, 'w'): the entries in dict order with
\* their keys as strings; a value json cannot write raises TypeError and
\* leaves the part written so far, which is not JSON
Dump(data) ==
    IF \E i \in 1..Len(data) : data[i][2][1] = "set"
    THEN [raised |-> "TypeError", file |-> [kind |-> "text", entries |-> << >>]]
    ELSE [raised |-> "none",
          file |-> [kind |-> "json",
                    entries |-> [i \in 1..Len(data) |-> << JsonKey(data[i][1]), data[i][2] >>]]]

RECURSIVE LoadEntries(_)
\* json.load of an object: a later entry with the same key replaces the
\* value of the earlier one
LoadEntries(entries) ==
    IF entries = << >> THEN << >>
    ELSE LET last == entries[Len(entries)]
         IN  SetItem(LoadEntries(SubSeq(entries, 1, Len(entries) - 1)), last[1], last[2])

\* TestDataManager._load_data: {} for a missing file or one that is not JSON
load_data(file) == IF file.kind = "json" THEN LoadEntries(file.entries) ELSE << >>

\* TestDataManager.save_data
save_data(M) ==
    LET written == Dump(M.data)
    IN  [M EXCEPT !.file = written.file, !.raised = written.raised, !.ops = @ + 1]

\* TestDataManager.set(key, value)
set(M, key, value) == save_data([M EXCEPT !.data = SetItem(@, key, value)])

\* TestDataManager.clear()
clear(M) == save_data([M EXCEPT !.data = << >>])

ManagerFrame == UNCHANGED << RunnerVars, workers, client, radar, test_suite >>

InitManager ==
    /\ RunnerAtRest
    /\ OtherProgramsAtRest

\* manager = TestDataManager(data_file)
ConstructManager ==
    /\ manager = None
    /\ \E file \in InitialFiles :
           manager' = Some([file |-> file, found |-> file, data |-> load_data(file),
                            raised |-> "none", ops |-> 0])
    /\ ManagerFrame

\* manager.set(key, value)
SetValue ==
    /\ manager # None
    /\ manager[1].ops < MaxOps
    /\ \E key \in Keys, value \in Values : manager' = Some(set(manager[1], key, value))
    /\ ManagerFrame

\* manager.clear()
Clear ==
    /\ manager # None
    /\ manager[1].ops < MaxOps
    /\ manager' = Some(clear(manager[1]))
    /\ ManagerFrame

NextManager == ConstructManager \/ SetValue \/ Clear

SpecManager == InitManager /\ [][NextManager]_vars

\* ---------------------------------------------------------------- claims

\* the positions of the records test_results holds for a test
RecordsFor(R, test) == { k \in 1..Len(R.test_results) : R.test_results[k].test = test }

Units == 1..Len(suite)

Started(i) == Case(i) \in DOMAIN result.start_times

RunReturned == pc \in {"return", "done"}

IsPrefix(s, t) == Len(s) <= Len(t) /\ SubSeq(t, 1, Len(s)) = s

\* the parts of unit i that run, and how the unit ends
UnitReturnsNormally(i) ==
    /\ ~suite[i].skip
    /\ suite[i].setUp = "ok" /\ suite[i].body = "ok" /\ suite[i].tearDown = "ok"

UnitRaises(i, kinds) ==
    /\ ~suite[i].skip
    /\ \/ suite[i].setUp \in kinds
       \/ suite[i].setUp = "ok" /\ (suite[i].body \in kinds \/ suite[i].tearDown \in kinds)

Trace(i, kind) == Some(ExcInfoToString(ExcInfo(kind, suite[i].text), Case(i)))

HasRecord(i, status, details) ==
    \E k \in RecordsFor(result, Case(i)) :
        /\ result.test_results[k].result = status
        /\ result.test_results[k].details = details

\* C1: once run has returned, test_results holds exactly one record for every
\* unit that was started, whatever callbacks the framework issued for it.
C1_ExactlyOneRecordPerStartedUnit ==
    RunReturned =>
        \A i \in Units : Started(i) => Cardinality(RecordsFor(result, Case(i))) = 1

\* C2: a finished unit that returned normally has a SUCCESS record with
\* details None, one that raised the assertion-style failure has a FAILURE
\* record with the formatted trace, one that raised another error has an ERROR
\* record with the formatted trace, and no record has any other status than
\* SUCCESS, FAILURE, ERROR or SKIP.
C2_ClassificationTotalAndExact ==
    /\ \A i \in stopped :
        /\ UnitReturnsNormally(i) => HasRecord(i, "SUCCESS", None)
        /\ UnitRaises(i, {"fail", "subfail"}) => HasRecord(i, "FAILURE", Trace(i, "fail"))
        /\ UnitRaises(i, {"error"}) => HasRecord(i, "ERROR", Trace(i, "error"))
    /\ \A k \in 1..Len(result.test_results) :
        result.test_results[k].result \in {"SUCCESS", "FAILURE", "ERROR", "SKIP"}

\* C3: the test method of a unit marked skipped is never invoked, the unit
\* never has more than one record, and once the unit has been run it has
\* exactly one: SKIP, execution_time 0, details the reason of the mark.
C3_SkippedUnitRecordedOnce ==
    \A i \in Units : suite[i].skip =>
        /\ i \notin invoked
        /\ Cardinality(RecordsFor(result, Case(i))) <= 1
        /\ \A k \in RecordsFor(result, Case(i)) :
               result.test_results[k] = Record(Case(i), "SKIP", 0, Some(suite[i].text))
        /\ i \in stopped => Cardinality(RecordsFor(result, Case(i))) = 1

\* C3 witness: a run that returned after running a unit marked skipped, with
\* another unit in the suite whose test method was invoked.
C3_Witness ==
    /\ pc = "done"
    /\ \E i \in stopped : suite[i].skip
    /\ invoked # {}

\* C4: no outcome callback raises out of the recorder, whatever test object it
\* is called with, one that startTest never saw included.
C4_CallbacksNeverRaise == exc = "none"

\* C5: every run ends by returning the result, the summary printed; none ends
\* with an exception leaving run.
C5_RunAlwaysReports ==
    /\ pc # "crashed"
    /\ pc = "done" => console # None

\* C6: in every state of the result the Run Summary satisfies
\* total = succeeded + failed + errored + skipped, and so does the summary
\* _print_summary printed.
C6_SummaryCountsAddUp ==
    /\ LET s == Summary(result)
       IN  s.total = s.succeeded + s.failed + s.errored + s.skipped
    /\ console # None =>
           LET c == console[1].summary
           IN  c.total = c.succeeded + c.failed + c.errored + c.skipped

\* C6 witness: a summary was printed that counts a failure and a skip.
C6_Witness ==
    /\ console # None
    /\ console[1].summary.failed > 0
    /\ console[1].summary.skipped > 0

\* C7 as stated: the exit code is 0 if and only if the Run Summary has
\* failed = 0 and errored = 0.
C7_ExitZeroIffNoFailureNoError ==
    exitCode # None =>
        (exitCode = Some(0) <=> (Len(result.failures) = 0 /\ Len(result.errors) = 0))

\* C7 amended: when the run returns, the exit code is 0 if and only if the Run
\* Summary has failed = 0 and errored = 0 and no unit succeeded unexpectedly.
C7_ExitZeroIffWasSuccessful ==
    pc = "done" =>
        /\ exitCode \in {Some(0), Some(1)}
        /\ exitCode = Some(0) <=>
               ( /\ Summary(result).failed = 0
                 /\ Summary(result).errored = 0
                 /\ Len(result.unexpectedSuccesses) = 0 )

\* C7 witness: a run returned with no failure and no error in its summary and
\* the exit code is 1.
C7_Witness ==
    /\ pc = "done"
    /\ console[1].summary.failed = 0
    /\ console[1].summary.errored = 0
    /\ exitCode = Some(1)

ZeroSummary == [total |-> 0, succeeded |-> 0, errored |-> 0, failed |-> 0, skipped |-> 0]

\* C8: a run over no units never raises, keeps test_results empty, prints a
\* summary of five zeros and no detail line, and exits with code 0.
C8_EmptySuite ==
    suite = << >> =>
        /\ exc = "none"
        /\ pc \notin {"raised", "crashed"}
        /\ result.test_results = << >>
        /\ Summary(result) = ZeroSummary
        /\ console # None => console[1].summary = ZeroSummary /\ console[1].lines = << >>
        /\ RunReturned => console # None
        /\ exitCode # None => exitCode = Some(0)

\* C8 witness: the run over no units has exited.
C8_Witness ==
    /\ suite = << >>
    /\ pc = "done"
    /\ exitCode = Some(0)
    /\ console # None

\* C9: no step changes, removes or reorders a record test_results holds:
\* test_results after the step starts with test_results before it.
C9_RecordsOnlyAppended ==
    [][IsPrefix(result.test_results, result.test_results')]_vars

\* C9 witness: two records were made and both reporters have run after them.
C9_Witness ==
    /\ Len(result.test_results) >= 2
    /\ console # None
    /\ report # None

\* C10: a unit that has a record never gets another one: no step adds to or
\* changes the records of a unit that already has one.
C10_SecondOutcomeRejected ==
    [][\A i \in Units :
          RecordsFor(result, Case(i)) # {} =>
              /\ RecordsFor(result', Case(i)) = RecordsFor(result, Case(i))
              /\ \A k \in RecordsFor(result, Case(i)) :
                     result.test_results'[k] = result.test_results[k]]_vars

\* the tests of the records of test_results, in order
RecordedTests(R) == [k \in 1..Len(R.test_results) |-> R.test_results[k].test]

\* the units startTest was called for, in suite order (they are started in
\* suite order, so they are the first units of the suite)
StartedUnits == { i \in Units : Started(i) }

\* C11: in the sequential run a unit is started only when the unit before it
\* has its record in test_results, and once the run has returned the records
\* are those of the started units, one each, in suite order.
C11_SequentialInInputOrder ==
    /\ \A i \in Units : (i > 1 /\ Started(i)) => RecordsFor(result, Case(i - 1)) # {}
    /\ RunReturned =>
           RecordedTests(result) = [k \in 1..Cardinality(StartedUnits) |-> Case(k)]

\* C12: once result.shouldStop is set no further unit is started, and when a
\* stopped run has returned every unit that was started has exactly one record.
C12_CooperativeCancellation ==
    [][ /\ result.shouldStop => DOMAIN result.start_times' = DOMAIN result.start_times
        /\ (result.shouldStop /\ pc' = "return") =>
               \A i \in Units :
                   Case(i) \in DOMAIN result.start_times' =>
                       Cardinality(RecordsFor(result', Case(i))) = 1 ]_vars

\* C15: whenever both reporters have run on the final result, the console
\* summary and the HTML summary block show the same five counts (Total Tests,
\* Successful, Errors, Failures, Skipped).
C15_ReportersAgreeOnCounts ==
    (console # None /\ report # None) =>
        /\ report[1].summary.total = console[1].summary.total
        /\ report[1].summary.succeeded = console[1].summary.succeeded
        /\ report[1].summary.errored = console[1].summary.errored
        /\ report[1].summary.failed = console[1].summary.failed
        /\ report[1].summary.skipped = console[1].summary.skipped

\* both reports exist for a run with a failure and a skip among its units
C15_Witness ==
    /\ console # None
    /\ report # None
    /\ report[1].summary.total = MaxUnits
    /\ report[1].summary.failed > 0
    /\ report[1].summary.skipped > 0

MarkupChars == { "<", ">", "\"", "'" }

Entities == { EscapeChar(c) : c \in MarkupChars \cup { "&" } }

\* position k of text starts one of the five entities html.escape produces
StartsEntity(text, k) ==
    \E e \in Entities : k + Len(e) - 1 <= Len(text) /\ SubSeq(text, k, k + Len(e) - 1) = e

RECURSIVE Unescape(_)
\* what a browser renders for an escaped text: each entity read back as its character
Unescape(text) ==
    IF text = << >> THEN << >>
    ELSE IF StartsEntity(text, 1)
         THEN LET c == CHOOSE c \in MarkupChars \cup { "&" } : IsPrefix(EscapeChar(c), text)
              IN  << c >> \o Unescape(SubSeq(text, Len(EscapeChar(c)) + 1, Len(text)))
         ELSE << Head(text) >> \o Unescape(Tail(text))

\* C16: in the HTML document the details cell of every row holds no raw <, >
\* or quote, every & in it starts an entity, and the cell reads back as the
\* record's details; so the details can neither open nor close a tag.
C16_DetailsEscaped ==
    report # None =>
        \A i \in 1..Len(report[1].rows) :
            LET cell == report[1].rows[i].details
            IN  /\ \A k \in 1..Len(cell) : cell[k] \notin MarkupChars
                /\ \A k \in 1..Len(cell) : cell[k] = "&" => StartsEntity(cell, k)
                /\ Unescape(cell) = Flatten(result.test_results[i].details)

\* a report was produced for a record whose details hold <, and for one whose
\* details hold & or a quote
C16_Witness ==
    /\ report # None
    /\ \E i \in 1..Len(result.test_results) :
           \E k \in 1..Len(Flatten(result.test_results[i].details)) :
               Flatten(result.test_results[i].details)[k] = "<"
    /\ \E i \in 1..Len(result.test_results) :
           \E k \in 1..Len(Flatten(result.test_results[i].details)) :
               Flatten(result.test_results[i].details)[k] \in { "&", "\"", "'" }

\* C17: the two reporter calls leave the recorder as it was: test_results,
\* testsRun, errors, failures, skipped and every other field of result are
\* the same after _print_summary and after _generate_html_report as before.
C17_ReportersLeaveRecorderUnchanged ==
    [][ (pc \in { "summary", "html" }) => (result' = result) ]_vars

\* both reporters have run on a recorder that holds records
C17_Witness ==
    /\ console # None
    /\ report # None
    /\ Len(result.test_results) = MaxUnits
    /\ result.testsRun = MaxUnits

\* the printed line of record i carries the record's status, unit and duration
LineMatches(i) ==
    /\ console[1].lines[i].status = result.test_results[i].result
    /\ console[1].lines[i].test = result.test_results[i].test
    /\ console[1].lines[i].execution_time = result.test_results[i].execution_time

\* C18 as stated: every record is printed once, in order, and the details of
\* every record that is not SUCCESS are printed beneath its line, whatever the
\* details text is.
C18_DetailsForEveryNonSuccess ==
    console # None =>
        /\ Len(console[1].lines) = Len(result.test_results)
        /\ \A i \in 1..Len(result.test_results) :
               /\ LineMatches(i)
               /\ result.test_results[i].result # "SUCCESS" =>
                      /\ console[1].lines[i].details # None
                      /\ console[1].lines[i].details = result.test_results[i].details

\* C18: every record is printed once, in order, with status, unit and
\* duration, and its details are printed beneath the line exactly when the
\* details are not empty: for every FAILURE and ERROR, and for a SKIP whose
\* reason is not the empty string.
C18_DetailsWhenNotEmpty ==
    console # None =>
        /\ Len(console[1].lines) = Len(result.test_results)
        /\ \A i \in 1..Len(result.test_results) :
               LET r == result.test_results[i]
               IN  /\ LineMatches(i)
                   /\ r.result \in { "FAILURE", "ERROR" } => Flatten(r.details) # << >>
                   /\ console[1].lines[i].details =
                          IF Flatten(r.details) # << >> THEN r.details ELSE None

\* a summary was printed for a skip with a reason and for a skip with none
C18_Witness ==
    /\ console # None
    /\ \E i \in 1..Len(result.test_results) :
           /\ result.test_results[i].result = "SKIP"
           /\ console[1].lines[i].details # None
    /\ \E i \in 1..Len(result.test_results) :
           /\ result.test_results[i].result = "SKIP"
           /\ result.test_results[i].details = Some(<< >>)

\* the class the claim gives to each status
RowClass(status) ==
    CASE status = "SUCCESS" -> "success"
      [] status = "FAILURE" -> "failure"
      [] status = "ERROR" -> "error"
      [] status = "SKIP" -> "skip"

\* C19: the HTML table has one row per record, in the order of test_results,
\* and the class of a row is success, failure, error or skip according to the
\* record's status, two rows having the same class only for the same status.
C19_OneRowPerRecord ==
    report # None =>
        /\ Len(report[1].rows) = Len(result.test_results)
        /\ \A i \in 1..Len(result.test_results) :
               /\ report[1].rows[i].test = Str(result.test_results[i].test)
               /\ report[1].rows[i].status = result.test_results[i].result
               /\ report[1].rows[i].execution_time = result.test_results[i].execution_time
               /\ report[1].rows[i].class = RowClass(result.test_results[i].result)
        /\ \A i, j \in 1..Len(report[1].rows) :
               report[1].rows[i].class = report[1].rows[j].class =>
                   report[1].rows[i].status = report[1].rows[j].status

\* a report with a FAILURE row followed by an ERROR row
C19_Witness ==
    /\ report # None
    /\ Len(report[1].rows) = 2
    /\ report[1].rows[1].status = "FAILURE"
    /\ report[1].rows[2].status = "ERROR"

MidUpdate(w) ==
    /\ workers[w].pc = "append"
    /\ CallbackOf(suite[workers[w].test]) # "addSkip"

\* C14: with the callbacks called from several threads, no thread writes
\* test_results, start_times or execution_times while another thread is in
\* the middle of a callback's updates (one writer at a time), and every
\* element test_results holds is a complete record.
C14_RecordingMutuallyExclusive ==
    [][ /\ \A w \in Workers :
               ( /\ workers'[w] # workers[w]
                 /\ \/ result'.test_results # result.test_results
                    \/ result'.start_times # result.start_times
                    \/ result'.execution_times # result.execution_times )
               => \A v \in Workers \ { w } : ~MidUpdate(v)
        /\ \A k \in 1..Len(result'.test_results) :
               DOMAIN result'.test_results[k] =
                   { "test", "result", "execution_time", "details" } ]_vars

\* the number of records of test_results with a status
CountRecords(R, status) ==
    Cardinality({ k \in 1..Len(R.test_results) : R.test_results[k].result = status })

\* C25: in the final result state the five counts of the summary are those of
\* the records: Successful the SUCCESS records, Failures the FAILURE records,
\* Errors the ERROR records, Skipped the SKIP records, and Total Tests the
\* length of test_results.
C25_SummaryDerivedFromRecords ==
    console # None =>
        /\ console[1].summary.succeeded = CountRecords(result, "SUCCESS")
        /\ console[1].summary.failed = CountRecords(result, "FAILURE")
        /\ console[1].summary.errored = CountRecords(result, "ERROR")
        /\ console[1].summary.skipped = CountRecords(result, "SKIP")
        /\ console[1].summary.total = Len(result.test_results)

\* C27: the Successful count of the console summary and of the HTML summary
\* block is never negative.
C27_SuccessfulNeverNegative ==
    /\ console # None => console[1].summary.succeeded >= 0
    /\ report # None => report[1].summary.succeeded >= 0

\* C28: in every row of the HTML table neither the unit cell nor the details
\* cell holds a raw <, > or quote, and every & in them starts an entity.
C28_TableTextEscaped ==
    report # None =>
        \A i \in 1..Len(report[1].rows) :
            \A cell \in { report[1].rows[i].test, report[1].rows[i].details } :
                \A k \in 1..Len(cell) :
                    /\ cell[k] \notin MarkupChars
                    /\ cell[k] = "&" => StartsEntity(cell, k)

\* C21: every get, post, put or delete calls its session method exactly once,
\* with the URL base_url + "/" + endpoint and the caller's params or json as
\* given; an exception of the transport, or the HTTPError of
\* raise_for_status, is what the caller gets, with no second request.
C21_OneRequestErrorsPropagate ==
    (client # None /\ client[1].last # None) =>
        LET c == client[1].last[1]
        IN  /\ Len(c.sent) = 1
            /\ c.sent[1].method = c.method
            /\ c.sent[1].url = client[1].base_url \o << "/" >> \o c.endpoint
            /\ c.method = "get" => c.sent[1].params = c.payload
            /\ c.method \in { "post", "put" } => c.sent[1].json = c.payload
            /\ c.answer.error \in TransportErrors => c.outcome.raised = c.answer.error
            /\ (c.answer.error = "none" /\ c.answer.status_code >= 400) =>
                   c.outcome.raised = "HTTPError"
            /\ c.outcome.raised # "none" => c.outcome.returned = None

\* a second call of a client whose session raised Timeout
C21_Witness ==
    /\ client # None
    /\ client[1].calls = 2
    /\ client[1].last[1].answer.error = "Timeout"
    /\ client[1].last[1].outcome.raised = "Timeout"

\* C22 as stated: the session has an Authorization header if and only if an
\* api_key was given to the constructor, and its value is then "Bearer "
\* followed by the key.
C22_HeaderIffApiKeyGiven ==
    client # None =>
        /\ "Authorization" \in DOMAIN client[1].headers <=> (client[1].api_key # None)
        /\ "Authorization" \in DOMAIN client[1].headers =>
               client[1].headers["Authorization"] = << "Bearer " >> \o client[1].api_key[1]

\* C22: after construction and after any calls, the session has an
\* Authorization header if and only if the api_key given to the constructor
\* is neither None nor empty, and its value is then "Bearer " followed by
\* the key.
C22_HeaderIffApiKeyNotEmpty ==
    client # None =>
        /\ "Authorization" \in DOMAIN client[1].headers <=>
               (client[1].api_key # None /\ client[1].api_key[1] # << >>)
        /\ "Authorization" \in DOMAIN client[1].headers =>
               client[1].headers["Authorization"] = << "Bearer " >> \o client[1].api_key[1]
        /\ client[1].last # None =>
               client[1].last[1].sent[1].headers = client[1].headers

\* a client constructed with a key has made a call that carried the header
C22_Witness ==
    /\ client # None
    /\ client[1].api_key = Some(<< "k" >>)
    /\ client[1].last # None
    /\ "Authorization" \in DOMAIN client[1].last[1].sent[1].headers

\* row has a latitude and a longitude that are present and are numbers
HasCoordinates(row) ==
    /\ Len(row) >= 5
    /\ ParseFloat(row[4]) # None
    /\ ParseFloat(row[5]) # None

\* the data rows of the file of the call, the header left out
DataRows == Tail(radar[1].file.lines)

\* the data rows of the call's file that have coordinates
ValidRows == { j \in 1..Len(DataRows) : HasCoordinates(DataRows[j]) }

\* the distance of data row j from the reference point of the call
DistanceOfRow(j) ==
    LET dlat == ParseFloat(DataRows[j][4])[1] - radar[1].lat
        dlon == ParseFloat(DataRows[j][5])[1] - radar[1].lon
    IN  dlat * dlat + dlon * dlon

\* C23: find_closest_radars returns at most limit (radar_id, distance)
\* pairs in non-decreasing order of distance, exactly limit of them when the
\* file has at least limit rows with valid coordinates, each the pair of a
\* valid row with fewer than limit valid rows strictly closer than it.
C23_ClosestSortedAndLimited ==
    (radar # None /\ radar[1].closest # None) =>
        LET closest == radar[1].closest[1]
        IN  /\ Len(closest) <= radar[1].limit
            /\ \A k \in 1..(Len(closest) - 1) : closest[k][2] <= closest[k + 1][2]
            /\ Cardinality(ValidRows) >= radar[1].limit => Len(closest) = radar[1].limit
            /\ \A k \in 1..Len(closest) :
                   /\ \E j \in ValidRows :
                          closest[k] = << DataRows[j][1], DistanceOfRow(j) >>
                   /\ Cardinality({ j \in ValidRows : DistanceOfRow(j) < closest[k][2] })
                          < radar[1].limit

\* a call with more valid rows than limit, given farthest first, with a row
\* without coordinates among them
C23_Witness ==
    /\ radar # None
    /\ radar[1].closest # None
    /\ Cardinality(ValidRows) > radar[1].limit
    /\ Cardinality(ValidRows) < Len(DataRows)
    /\ \E i, j \in ValidRows : i < j /\ DistanceOfRow(j) < DistanceOfRow(i)

\* C24: a call of analyze_radar_data or find_closest_radars on a path where
\* no file is raises FileNotFoundError without opening anything and returns
\* neither statistics nor a list.
C24_MissingFileRaisesBeforeOpen ==
    (radar # None /\ ~radar[1].file.exists) =>
        /\ radar[1].raised = "FileNotFoundError"
        /\ ~radar[1].opened
        /\ radar[1].stats = None
        /\ radar[1].closest = None

\* analyze_radar_data was called on a missing path
C24_Witness ==
    /\ radar # None
    /\ radar[1].function = "analyze_radar_data"
    /\ ~radar[1].file.exists
    /\ radar[1].raised = "FileNotFoundError"

\* row has a speed field that is present and is an integer
HasSpeed(row) == Len(row) >= 6 /\ ParseInt(row[6]) # None

\* the number of data rows of the call's file whose type column reads t
\* ("Unknown" for a row without the column)
RowsOfType(t) ==
    Cardinality({ j \in 1..Len(DataRows) :
        (IF Len(DataRows[j]) >= 2 THEN DataRows[j][2] ELSE "Unknown") = t })

\* the sum of f over the set S of data rows
RECURSIVE SumOver(_, _)
SumOver(S, f) ==
    IF S = {} THEN 0
    ELSE LET j == CHOOSE j \in S : TRUE IN f[j] + SumOver(S \ { j }, f)

\* C26: on a file with a header line analyze_radar_data raises nothing
\* whatever the rows are; every data row is counted in total_radars and in
\* radar_types (under "Unknown" without a type column); only the rows with an
\* integer speed are counted in speed_limits and in the average, which is 0
\* when there is no such row.
C26_LenientOnMalformedRows ==
    (radar # None /\ radar[1].function = "analyze_radar_data"
        /\ radar[1].file.exists /\ radar[1].file.lines # << >>) =>
        LET stats == radar[1].stats[1]
            speeds == { j \in 1..Len(DataRows) : HasSpeed(DataRows[j]) }
            speed == [j \in speeds |-> ParseInt(DataRows[j][6])[1]]
        IN  /\ radar[1].raised = "none"
            /\ radar[1].stats # None
            /\ stats.total_radars = Len(DataRows)
            /\ \A t \in DOMAIN stats.radar_types : stats.radar_types[t] = RowsOfType(t)
            /\ \A j \in 1..Len(DataRows) :
                   (IF Len(DataRows[j]) >= 2 THEN DataRows[j][2] ELSE "Unknown")
                       \in DOMAIN stats.radar_types
            /\ \A v \in DOMAIN stats.speed_limits :
                   stats.speed_limits[v] = Cardinality({ j \in speeds : speed[j] = v })
            /\ \A j \in speeds : speed[j] \in DOMAIN stats.speed_limits
            /\ speeds = {} => stats.avg_speed_limit = 0
            /\ speeds # {} =>
                   stats.avg_speed_limit =
                       RoundedAverage(SumOver(speeds, speed), Cardinality(speeds))

\* statistics of a file with a row without type column, a row whose speed is
\* not an integer, and no row with a valid speed
C26_Witness ==
    /\ radar # None
    /\ radar[1].stats # None
    /\ \E j \in 1..Len(DataRows) : Len(DataRows[j]) < 2
    /\ \E j \in 1..Len(DataRows) : Len(DataRows[j]) >= 6 /\ ~HasSpeed(DataRows[j])
    /\ radar[1].stats[1].avg_speed_limit = 0
    /\ radar[1].stats[1].total_radars = MaxRows

\* C30: the success rate written to the summary file is 0 when no test ran,
\* otherwise (run - failures - errors) / run * 100, and it lies between 0 and
\* 100 inclusive (rates in hundredths of a percent).
C30_SuccessRateWithinBounds ==
    test_suite # None =>
        LET results == test_suite[1].results
            rate == test_suite[1].summary_file.success_rate
        IN  /\ results.run = 0 => rate = 0
            /\ results.run > 0 =>
                   rate * results.run - (results.run - results.failures - results.errors) * 10000
                       \in (0 - results.run)..results.run
            /\ rate >= 0
            /\ rate <= 10000

\* the dict d as a mapping, its insertion order left out
AsMapping(d) == [key \in { d[i][1] : i \in 1..Len(d) } |-> GetItem(d, key)]

\* C29: after any set and clear calls the content of the data file equals
\* the manager's in-memory data, so a new manager constructed on the file
\* gives for every key what this one gives; and a manager constructed on a
\* missing file or on one that is not JSON has empty data and raised nothing.
C29_FileAndMemoryInStep ==
    manager # None =>
        /\ manager[1].ops > 0 =>
               /\ manager[1].file.kind = "json"
               /\ AsMapping(load_data(manager[1].file)) = AsMapping(manager[1].data)
               /\ \A key \in Keys :
                      GetItem(load_data(manager[1].file), key) = GetItem(manager[1].data, key)
        /\ (manager[1].ops = 0 /\ manager[1].found.kind \in { "missing", "text" }) =>
               /\ manager[1].data = << >>
               /\ manager[1].raised = "none"

====
